---- MODULE Spec2Model ----
(***************************************************************************)
(* The two aggregator scripts of the repository,                           *)
(*   server/scripts/nl_aggregate.py    (deterministic only)                *)
(*   server/scripts/pandasai_query.py  (deterministic, then sdf.chat)      *)
(* as one state machine: a run of one script on one input, one action per  *)
(* pipeline stage.  Text is a sequence of one-character strings, so that   *)
(* normalisation, the question pattern and the rendering of answers are    *)
(* computed on characters.  A cell of the dataset is a record [k, v]:      *)
(*   k = "null"  a missing value (None / NaN)                              *)
(*   k = "num"   a finite number, v = twice its value (halves are exact)   *)
(*   k = "inf"   a non-finite number (JSON 1e999, Infinity, "inf")         *)
(*   k = "dur"   a clock string such as "1:58:30", v = its seconds         *)
(*   k = "durx"  a duration string pd.to_timedelta parses but none of the  *)
(*               time_patterns matches ("1:00:00.0", "100:00:00"), v = s   *)
(*   k = "text"  any other string                                          *)
(* Numbers in the model are non-negative; means are exact rationals        *)
(* (sum, count), not binary floats.                                        *)
(***************************************************************************)
EXTENDS Integers, Sequences, FiniteSets, TLC

(***************************************************************************)
(* Characters and strings                                                  *)
(***************************************************************************)
Range(s) == {s[i] : i \in DOMAIN s}

UpperCase ==
    <<"A","B","C","D","E","F","G","H","I","J","K","L","M",
      "N","O","P","Q","R","S","T","U","V","W","X","Y","Z">>

LowerCase ==
    <<"a","b","c","d","e","f","g","h","i","j","k","l","m",
      "n","o","p","q","r","s","t","u","v","w","x","y","z">>

DigitChars == <<"0","1","2","3","4","5","6","7","8","9">>

LowerLetters == Range(LowerCase)

UpperLetters == Range(UpperCase)

DigitSet == Range(DigitChars)

IsLetter(c) == c \in LowerLetters

IsDigit(c) == c \in DigitSet

\* \s of the pattern
IsSpace(c) == c \in {" ", "\t", "\n"}

\* . of the pattern: any character but a line break
IsDot(c) == c # "\n"

\* str.lower() on one character
LowerOf ==
    [c \in UpperLetters |-> LowerCase[CHOOSE i \in DOMAIN UpperCase : UpperCase[i] = c]]

lower(c) == IF c \in UpperLetters THEN LowerOf[c] ELSE c

LowerStr(s) == [i \in DOMAIN s |-> lower(s[i])]

IsAlnum(c) == IsLetter(c) \/ IsDigit(c)

\* "sub in s"
Contains(s, sub) ==
    \E i \in 0..(Len(s) - Len(sub)) : SubSeq(s, i + 1, i + Len(sub)) = sub

\* re.sub(r"[^a-z0-9]", "", str(name).lower())
normalize_name(name) == SelectSeq(LowerStr(name), IsAlnum)

\* set(re.findall(r"[a-z]+", s)): the maximal runs of letters of s
LetterRuns(s) ==
    { SubSeq(s, i, CHOOSE j \in i..Len(s) :
                       /\ \A k \in i..j : IsLetter(s[k])
                       /\ (j = Len(s) \/ ~IsLetter(s[j + 1])))
        : i \in { x \in DOMAIN s :
                    IsLetter(s[x]) /\ (x = 1 \/ ~IsLetter(s[x - 1])) } }

\* str.strip()
Strip(s) ==
    IF \A i \in DOMAIN s : IsSpace(s[i]) THEN <<>>
    ELSE LET a == CHOOSE i \in DOMAIN s :
                     ~IsSpace(s[i]) /\ \A k \in 1..(i - 1) : IsSpace(s[k])
             b == CHOOSE i \in DOMAIN s :
                     ~IsSpace(s[i]) /\ \A k \in (i + 1)..Len(s) : IsSpace(s[k])
         IN  SubSeq(s, a, b)

DigitValue(c) == (CHOOSE i \in DOMAIN DigitChars : DigitChars[i] = c) - 1

\* int(s) of a string of digits
RECURSIVE ToInt(_)
ToInt(s) ==
    IF s = <<>> THEN 0
    ELSE 10 * ToInt(SubSeq(s, 1, Len(s) - 1)) + DigitValue(s[Len(s)])

\* str(n) of a non-negative integer
RECURSIVE Digits(_)
Digits(n) ==
    IF n < 10 THEN <<DigitChars[n + 1]>>
    ELSE Digits(n \div 10) \o <<DigitChars[(n % 10) + 1]>>

\* format(n, "0<w>d") of a non-negative integer: zero-padded to w digits at least
RECURSIVE ZeroPad(_, _)
ZeroPad(s, w) == IF Len(s) >= w THEN s ELSE ZeroPad(<<"0">> \o s, w)

(***************************************************************************)
(* Question parser: re.search(r"average\s+(.+?)\s+for\s+the\s+past\s+      *)
(* (\d+)\s+years?", question, re.IGNORECASE)                               *)
(***************************************************************************)
sAverage == <<"a","v","e","r","a","g","e">>

sFor == <<"f","o","r">>

sThe == <<"t","h","e">>

sPast == <<"p","a","s","t">>

sYear == <<"y","e","a","r">>

sTime == <<"t","i","m","e">>

\* a literal of the pattern at position p, letter case ignored
LitAt(q, p, lit) ==
    /\ p >= 1
    /\ p + Len(lit) - 1 <= Len(q)
    /\ \A k \in DOMAIN lit : lower(q[p + k - 1]) = lit[k]

\* the position after the longest run of \s that starts at p (p when there is none)
SpaceEnd(q, p) ==
    CHOOSE k \in p..(Len(q) + 1) :
        /\ \A j \in p..(k - 1) : IsSpace(q[j])
        /\ (k = Len(q) + 1 \/ ~IsSpace(q[k]))

\* the position after the longest run of \d that starts at p (p when there is none)
DigitEnd(q, p) ==
    CHOOSE k \in p..(Len(q) + 1) :
        /\ \A j \in p..(k - 1) : IsDigit(q[j])
        /\ (k = Len(q) + 1 \/ ~IsDigit(q[k]))

NoDigits == <<0, 0>>

\* Mutant of PatternTail: the trailing word made optional, (\s+years?)?
PatternTailYearOptional(q, p) ==
    LET a == SpaceEnd(q, p)
        b == SpaceEnd(q, a + Len(sFor))
        c == SpaceEnd(q, b + Len(sThe))
        d == SpaceEnd(q, c + Len(sPast))
        e == DigitEnd(q, d)
    IN  IF /\ a > p /\ LitAt(q, a, sFor)
           /\ b > a + Len(sFor) /\ LitAt(q, b, sThe)
           /\ c > b + Len(sThe) /\ LitAt(q, c, sPast)
           /\ d > c + Len(sPast)
           /\ e > d
        THEN <<d, e - 1>>
        ELSE NoDigits

\* \s+for\s+the\s+past\s+(\d+)\s+years? anchored at p: the first and last
\* position of group 2, or NoDigits.  Every \s+ and the \d+ are followed by a
\* character outside their class, so each takes its longest run.
PatternTail(q, p) ==
    LET a == SpaceEnd(q, p)
        b == SpaceEnd(q, a + Len(sFor))
        c == SpaceEnd(q, b + Len(sThe))
        d == SpaceEnd(q, c + Len(sPast))
        e == DigitEnd(q, d)
        f == SpaceEnd(q, e)
    IN  IF /\ a > p /\ LitAt(q, a, sFor)
           /\ b > a + Len(sFor) /\ LitAt(q, b, sThe)
           /\ c > b + Len(sThe) /\ LitAt(q, c, sPast)
           /\ d > c + Len(sPast)
           /\ e > d
           /\ f > e /\ LitAt(q, f, sYear)
        THEN <<d, e - 1>>
        ELSE NoDigits

\* The ways the whole pattern matches: <<i, a, pe>> with "average" at i, a
\* characters taken by the first \s+, group 1 from i + 7 + a to pe.
PatternMatches(q) ==
    UNION { UNION { { <<i, a, pe>> : pe \in
                        { x \in (i + Len(sAverage) + a)..Len(q) :
                            /\ \A k \in (i + Len(sAverage) + a)..x : IsDot(q[k])
                            /\ PatternTail(q, x + 1) # NoDigits } }
                    : a \in 1..(SpaceEnd(q, i + Len(sAverage)) - (i + Len(sAverage))) }
            : i \in { x \in DOMAIN q : LitAt(q, x, sAverage) } }

NoMatch == [matched |-> FALSE, target_phrase |-> <<>>, years_back |-> 0]

\* re.search, then group(1).strip() and int(group(2)): the leftmost start,
\* the first \s+ greedy (longest first), group 1 lazy (shortest first).
pattern_search(q) ==
    LET M == PatternMatches(q)
    IN  IF M = {} THEN NoMatch
        ELSE LET i  == CHOOSE x \in {m[1] : m \in M} : \A y \in {m[1] : m \in M} : x <= y
                 Mi == {m \in M : m[1] = i}
                 a  == CHOOSE x \in {m[2] : m \in Mi} : \A y \in {m[2] : m \in Mi} : x >= y
                 Ma == {m \in Mi : m[2] = a}
                 pe == CHOOSE x \in {m[3] : m \in Ma} : \A y \in {m[3] : m \in Ma} : x <= y
                 g2 == PatternTail(q, pe + 1)
             IN  [matched      |-> TRUE,
                  target_phrase |-> Strip(SubSeq(q, i + Len(sAverage) + a, pe)),
                  years_back   |-> ToInt(SubSeq(q, g2[1], g2[2]))]


(***************************************************************************)
(* Cells, columns and the DataFrame                                        *)
(***************************************************************************)
Null == [k |-> "null", v |-> 0]

Num(x2) == [k |-> "num", v |-> x2]

Inf == [k |-> "inf", v |-> 0]

Dur(sec) == [k |-> "dur", v |-> sec]

DurX(sec) == [k |-> "durx", v |-> sec]

Text == [k |-> "text", v |-> 0]

\* df as built by pd.DataFrame(data): the column names in order of first
\* appearance and, per column, its cells by row
NCols(df) == Len(df.columns)

NRows(df) == IF df.columns = <<>> THEN 0 ELSE Len(df.cells[1])

AllRows(df) == [i \in 1..NRows(df) |-> i]

\* pd.to_numeric(series, errors="coerce"): what is no number becomes NaN
to_numeric(ser) ==
    [i \in DOMAIN ser |-> IF ser[i].k \in {"num", "inf"} THEN ser[i] ELSE Null]

\* series.notna().sum()
NotNaCount(ser) == Cardinality({i \in DOMAIN ser : ser[i].k # "null"})

IsNotNa(c) == c.k # "null"

\* series.dropna()
dropna(ser) == SelectSeq(ser, IsNotNa)

\* astype(int) raises IntCastingNaNError on a non-finite value
HasNonFinite(ser) == \E i \in DOMAIN ser : ser[i].k = "inf"

\* astype(int) of one finite value (held as twice the value): towards zero
TruncInt(x2) == IF x2 >= 0 THEN x2 \div 2 ELSE -((-x2) \div 2)

\* series.dropna().astype(int), for a series without non-finite values
AsInts(ser) == [i \in DOMAIN dropna(ser) |-> TruncInt(dropna(ser)[i].v)]

YearMin == 1900

YearMax == 2100

\* vals.between(1900, 2100).mean() > 0.5
MostlyYears(vals) ==
    2 * Cardinality({i \in DOMAIN vals : YearMin <= vals[i] /\ vals[i] <= YearMax})
        > Len(vals)

NoColumn == 0

Raised == -1

\* the first column whose normalized name contains "year", or NoColumn
FirstYearNamed(df) ==
    IF \E j \in DOMAIN df.columns : Contains(normalize_name(df.columns[j]), sYear)
    THEN CHOOSE j \in DOMAIN df.columns :
            /\ Contains(normalize_name(df.columns[j]), sYear)
            /\ \A i \in 1..(j - 1) : ~Contains(normalize_name(df.columns[i]), sYear)
    ELSE NoColumn

\* the value-range loop from column j on: the first column with a number
\* whose integer values are mostly in 1900..2100; Raised when astype(int)
\* meets a non-finite value before that
RECURSIVE YearByRange(_, _)
YearByRange(df, j) ==
    IF j > NCols(df) THEN NoColumn
    ELSE LET ser == to_numeric(df.cells[j])
         IN  IF NotNaCount(ser) = 0 THEN YearByRange(df, j + 1)
             ELSE IF HasNonFinite(ser) THEN Raised
             ELSE IF MostlyYears(AsInts(ser)) THEN j
             ELSE YearByRange(df, j + 1)

\* Mutant of find_year_col: the value-range pass first, the name only after it
find_year_col_range_first(df) ==
    IF YearByRange(df, 1) # NoColumn THEN YearByRange(df, 1)
    ELSE FirstYearNamed(df)

\* year_col: the name pass, and the value-range pass only when it finds none
find_year_col(df) ==
    IF FirstYearNamed(df) # NoColumn THEN FirstYearNamed(df)
    ELSE YearByRange(df, 1)

Max(S) == CHOOSE x \in S : \A y \in S : y <= x

\* sorted(values, reverse=True)
RECURSIVE SortDesc(_)
SortDesc(S) == IF S = {} THEN <<>> ELSE <<Max(S)>> \o SortDesc(S \ {Max(S)})

\* seq[:n]
Prefix(seq, n) == SubSeq(seq, 1, IF n < Len(seq) THEN n ELSE Len(seq))

\* sorted(valid_years.unique(), reverse=True)[:years_back]
recent_years_of(valid_years, years_back) ==
    Prefix(SortDesc(Range(valid_years)), years_back)

\* years_numeric.isin(recent_years) for one row: the value as it is, not
\* coerced to an integer, against the selected integers (NaN is in no list)
isin_years(cell, recent) ==
    cell.k = "num" /\ \E y \in Range(recent) : cell.v = 2 * y

\* df[years_numeric.isin(recent_years)]: the rows kept, in row order
subset_rows(df, year_col, recent) ==
    LET ser == to_numeric(df.cells[year_col])
        Keep(i) == isin_years(ser[i], recent)
    IN  SelectSeq(AllRows(df), Keep)

(***************************************************************************)
(* Target column                                                           *)
(***************************************************************************)
score(col, target_phrase) ==
    LET cn     == normalize_name(col)
        tp     == normalize_name(target_phrase)
        common == LetterRuns(cn) \cap LetterRuns(tp)
        bonus  == IF Contains(cn, sTime) /\ Contains(tp, sTime) THEN 2 ELSE 0
    IN  Cardinality(common) + bonus

\* Mutant of MaxFrom: a later column replaces the best one on an equal key
RECURSIVE MaxFromLastWins(_, _, _, _)
MaxFromLastWins(columns, target_phrase, j, best) ==
    IF j > Len(columns) THEN best
    ELSE IF score(columns[j], target_phrase) >= score(columns[best], target_phrase)
         THEN MaxFromLastWins(columns, target_phrase, j + 1, j)
         ELSE MaxFromLastWins(columns, target_phrase, j + 1, best)

\* max(iterable, key=score) from item j on, best being the maximum so far:
\* an item replaces it only on a strictly greater key
RECURSIVE MaxFrom(_, _, _, _)
MaxFrom(columns, target_phrase, j, best) ==
    IF j > Len(columns) THEN best
    ELSE IF score(columns[j], target_phrase) > score(columns[best], target_phrase)
         THEN MaxFrom(columns, target_phrase, j + 1, j)
         ELSE MaxFrom(columns, target_phrase, j + 1, best)

\* target_col = max(df.columns, key=score), as a column position
resolve_target(columns, target_phrase) == MaxFrom(columns, target_phrase, 2, 1)


(***************************************************************************)
(* Aggregator                                                              *)
(***************************************************************************)
\* the cells of column col in the rows of the subset
SubsetCells(df, rows, col) == [i \in DOMAIN rows |-> df.cells[col][rows[i]]]

\* df[col].dtype == "object": a string in the column, or nothing but None
IsObjectDtype(ser) ==
    \/ \E i \in DOMAIN ser : ser[i].k \in {"dur", "durx", "text"}
    \/ \A i \in DOMAIN ser : ser[i].k = "null"

\* the column is float64: numbers only, one of them missing, non-finite or
\* not whole (int64 otherwise)
IsFloatDtype(ser) ==
    /\ ~IsObjectDtype(ser)
    /\ \E i \in DOMAIN ser :
          ser[i].k \in {"null", "inf"} \/ (ser[i].k = "num" /\ ser[i].v % 2 = 1)

\* astype(str) writes the number without a point: a whole number of an
\* int64 column, or a Python int of an object column
WrittenAsInteger(ser, c) == c.k = "num" /\ c.v % 2 = 0 /\ ~IsFloatDtype(ser)

\* pd.to_timedelta(str(cell), errors="coerce") is a duration (not NaT): a
\* clock string, or digits alone, read as that many nanoseconds; digits with
\* a point and no unit ("2.0"), "nan", "None", "inf" and other text are NaT.
\* ser is the whole column, which decides how its numbers are written.
IsTimedelta(ser, c) == c.k \in {"dur", "durx"} \/ WrittenAsInteger(ser, c)

\* its total_seconds(), in whole seconds: the nanoseconds of bare digits
\* are below one second in sum for the numbers of this model
TotalSeconds(c) == IF c.k \in {"dur", "durx"} THEN c.v ELSE 0

RECURSIVE SumOver(_, _)
SumOver(seq, i) == IF i > Len(seq) THEN 0 ELSE seq[i] + SumOver(seq, i + 1)

\* seconds.mean() over the subset's cells of column ser, skipping NaT, as
\* the pair (sum, count); count 0 is NaN
time_mean(ser, rows) ==
    LET IsTd(c) == IsTimedelta(ser, c)
        td == SelectSeq([i \in DOMAIN rows |-> ser[rows[i]]], IsTd)
    IN  [sum |-> SumOver([i \in DOMAIN td |-> TotalSeconds(td[i])], 1),
         n   |-> Len(td)]

SecondsPerHour == 3600

SecondsPerMinute == 60

\* h = int(avg_seconds // 3600) for avg_seconds = sum / n
hours_of(sum, n) == sum \div (SecondsPerHour * n)

\* m = int((avg_seconds % 3600) // 60)
minutes_of(sum, n) == (sum % (SecondsPerHour * n)) \div (SecondsPerMinute * n)

\* Mutant of seconds_of: round(avg_seconds % 60) instead of int(...)
seconds_of_rounded(sum, n) == (2 * (sum % (SecondsPerMinute * n)) + n) \div (2 * n)

\* s = int(avg_seconds % 60)
seconds_of(sum, n) == (sum % (SecondsPerMinute * n)) \div n

\* f"{h:01d}:{m:02d}:{s:02d}"
format_hms(sum, n) ==
    ZeroPad(Digits(hours_of(sum, n)), 1) \o <<":">>
        \o ZeroPad(Digits(minutes_of(sum, n)), 2) \o <<":">>
        \o ZeroPad(Digits(seconds_of(sum, n)), 2)

IsFinite(c) == c.k = "num"

\* series.mean() of pd.to_numeric(...), skipping NaN: (sum of twice the
\* values, count, whether a non-finite value makes the mean non-finite)
numeric_mean(ser) ==
    LET num == SelectSeq(to_numeric(ser), IsFinite)
    IN  [sum2 |-> SumOver([i \in DOMAIN num |-> num[i].v], 1),
         n    |-> NotNaCount(to_numeric(ser)),
         inf  |-> HasNonFinite(to_numeric(ser))]

FourDecimals == 10000

sInf == <<"i","n","f">>

\* f"{avg_val:.4f}" for avg_val = sum2 / (2 n): the nearest multiple of
\* 0.0001, a tie going to the even one
format_4f(sum2, n) ==
    LET num == sum2 * (FourDecimals \div 2)
        q   == num \div n
        r   == num % n
        x   == IF 2 * r > n \/ (2 * r = n /\ q % 2 = 1) THEN q + 1 ELSE q
    IN  Digits(x \div FourDecimals) \o <<".">> \o ZeroPad(Digits(x % FourDecimals), 4)

sAveragePrefix == <<"A","v","e","r","a","g","e"," ">>

sOverPast == <<" ","o","v","e","r"," ","p","a","s","t"," ">>

sYearsColon == <<" ","y","e","a","r","s",":"," ">>

\* f"Average {target_col} over past {years_back} years: {value}"
answer_str(target_col, years_back, value) ==
    sAveragePrefix \o target_col \o sOverPast \o Digits(years_back)
        \o sYearsColon \o value

NoAnswer == <<>>

\* The try body of the aggregation: the answer, or NoAnswer when it raises
\* ValueError("Could not compute average of ... column")
aggregate(df, rows, col, years_back) ==
    LET name == df.columns[col]
        ser  == SubsetCells(df, rows, col)
    IN  IF Contains(normalize_name(name), sTime)
        THEN LET avg == time_mean(df.cells[col], rows)
             IN  IF avg.n = 0 THEN NoAnswer
                 ELSE answer_str(name, years_back, format_hms(avg.sum, avg.n))
        ELSE LET avg == numeric_mean(ser)
             IN  IF avg.n = 0 THEN NoAnswer
                 ELSE IF avg.inf THEN answer_str(name, years_back, sInf)
                 ELSE answer_str(name, years_back, format_4f(avg.sum2, avg.n))

(***************************************************************************)
(* pandasai_query.py: numeric conversion of object columns at load         *)
(***************************************************************************)
SampleSize == 10

\* looks_like_time_or_date: one of the first 10 non-null values, as a string,
\* matches a time or date pattern
looks_like_time_or_date(ser) ==
    \E i \in DOMAIN Prefix(dropna(ser), SampleSize) : dropna(ser)[i].k = "dur"

\* the loop body for one column: replaced by its numeric conversion when it
\* is an object column, does not look like times, and more than half of the
\* rows are numbers
convert_column(ser) ==
    IF /\ IsObjectDtype(ser)
       /\ ~looks_like_time_or_date(ser)
       /\ 2 * NotNaCount(to_numeric(ser)) > Len(ser)
    THEN to_numeric(ser)
    ELSE ser

convert_numeric(df) ==
    [df EXCEPT !.cells = [j \in DOMAIN df.cells |-> convert_column(df.cells[j])]]


(***************************************************************************)
(* Inputs of a run                                                         *)
(***************************************************************************)
MaxRows == 3

MaxYearsBack == 3

cYear == <<"Y","e","a","r">>

cYearSpaced == <<" ","y","e","a","r">>

cYearly == <<"y","e","a","r","l","y">>

cScore == <<"s","c","o","r","e">>

cScoreUpper == <<"S","c","o","r","e">>

cFinishTime == <<"f","i","n","i","s","h","_","t","i","m","e">>

cN == <<"n">>

ColumnLists ==
    { <<cYear, cScore>>,
      <<cScore, cYear>>,
      <<cYearly, cYear>>,
      <<cYear, cFinishTime>>,
      <<cN, cScore>>,
      <<cN, cFinishTime>>,
      <<cYearSpaced, cScore, cScoreUpper>> }

\* Column contents, each repeated down the rows
CellPatterns ==
    { <<Num(4040), Num(4042), Num(4044)>>,
      <<Num(4043), Num(4040), Text>>,
      <<Dur(7380), Dur(7110), Dur(7275)>>,
      <<Num(2), Num(4), DurX(45)>>,
      <<Num(4040), Inf>>,
      <<Text, Null>> }

Column(pattern, n) == [i \in 1..n |-> pattern[((i - 1) % Len(pattern)) + 1]]

EmptyData == [columns |-> <<>>, cells |-> <<>>]

\* data: the rows of metadata.structuredData.data, column by column
Datasets ==
    {EmptyData} \cup
    { [columns |-> cols, cells |-> [j \in DOMAIN cols |-> Column(pats[j], n)]] :
        <<cols, pats, n>> \in
            UNION { {cs} \X [DOMAIN cs -> CellPatterns] \X (1..MaxRows)
                    : cs \in ColumnLists } }

sSpace == <<" ">>

wAverage == <<"a","v","e","r","a","g","e">>

wAverageUpper == <<"A","V","E","R","A","G","E">>

wForThePast == <<"f","o","r"," ","t","h","e"," ","p","a","s","t">>

wYears == <<"y","e","a","r","s">>

wFinishTime == <<"F","i","n","i","s","h"," ","T","i","m","e">>

wFoo == <<"f","o","o">>

wWhatIsTheMax == <<"w","h","a","t"," ","i","s"," ","t","h","e"," ","m","a","x">>

\* "average <phrase> for the past <n><tail>"
Ask(avg, phrase, n, tail) ==
    avg \o sSpace \o phrase \o sSpace \o wForThePast \o sSpace \o Digits(n) \o tail

Questions ==
    { Ask(wAverage, cScore, n, sSpace \o wYears) : n \in 0..MaxYearsBack }
    \cup { Ask(wAverage, cScore, n, <<>>) : n \in {MaxYearsBack} }
    \cup { Ask(wAverageUpper, sSpace \o wFinishTime, n, sSpace \o sSpace \o sYear)
             : n \in 1..MaxYearsBack }
    \cup { Ask(wAverage, wFoo, 2, sSpace \o wYears \o sSpace \o wFoo),
           wWhatIsTheMax \o sSpace \o cScore }

Scripts == {"nl_aggregate", "pandasai_query"}

\* what json.load and the structuredData test make of the file
DocShapes == {"structured", "no_structured_data", "unloadable"}

(***************************************************************************)
(* State                                                                   *)
(***************************************************************************)
VARIABLES
    script,        \* which script runs
    argc,          \* len(sys.argv)
    file_exists,   \* os.path.exists(json_file)
    doc,           \* the shape of the JSON document
    question,      \* sys.argv[2]
    data,          \* metadata.structuredData.data
    pc,            \* the stage the run is at
    df,            \* the DataFrame
    parsed,        \* the match: target_phrase, years_back
    year_col,      \* position of the year column, NoColumn for None
    valid_years,
    recent_years,
    subset,        \* the rows of df kept by the temporal filter
    target_col,    \* position of the target column
    stdout,        \* the JSON objects printed to stdout, in order
    exit_code,     \* process exit status, Running before the exit
    chat_calls,    \* number of calls of sdf.chat
    result,        \* what sdf.chat did, "none" before the call
    last_code      \* sdf.last_code_executed at the call

inputs == <<script, argc, file_exists, doc, question, data>>

pipeline == <<df, parsed, year_col, valid_years, recent_years, subset, target_col>>

collaborator == <<chat_calls, result, last_code>>

vars == <<inputs, pipeline, pc, stdout, exit_code, collaborator>>

Running == -1

Init ==
    /\ script \in Scripts
    /\ argc \in {2, 3}
    /\ file_exists \in BOOLEAN
    /\ doc \in DocShapes
    /\ question \in Questions
    /\ data \in Datasets
    \* an input the run never reads has one value
    /\ argc < 3 => ~file_exists
    /\ ~file_exists => doc = "unloadable"
    /\ doc # "structured" => data = EmptyData /\ question = wWhatIsTheMax \o sSpace \o cScore
    /\ pc = "args"
    /\ df = EmptyData
    /\ parsed = NoMatch
    /\ year_col = NoColumn
    /\ valid_years = <<>>
    /\ recent_years = <<>>
    /\ subset = <<>>
    /\ target_col = NoColumn
    /\ stdout = <<>>
    /\ exit_code = Running
    /\ chat_calls = 0
    /\ result = "none"
    /\ last_code = "absent"

Error(msg) == [key |-> "error", text |-> <<msg>>, code |-> "absent"]

\* print(json.dumps(obj)); sys.exit(status)
PrintAndExit(obj, status) ==
    /\ stdout' = Append(stdout, obj)
    /\ exit_code' = status
    /\ pc' = "exited"

\* an exception no handler catches: the traceback goes to stderr, status 1
Uncaught ==
    /\ pc' = "crashed"
    /\ exit_code' = 1
    /\ UNCHANGED stdout

Goto(stage) ==
    /\ pc' = stage
    /\ UNCHANGED <<stdout, exit_code>>


(***************************************************************************)
(* nl_aggregate.py                                                         *)
(***************************************************************************)
Nl(stage) == script = "nl_aggregate" /\ pc = stage

NlCheckArgs ==
    /\ Nl("args")
    /\ IF argc < 3
       THEN PrintAndExit(Error("Usage: python nl_aggregate.py <json_file> <question>"), 1)
       ELSE Goto("file")
    /\ UNCHANGED <<inputs, pipeline, collaborator>>

NlCheckFile ==
    /\ Nl("file")
    /\ IF ~file_exists
       THEN PrintAndExit(Error("File not found"), 1)
       ELSE Goto("load")
    /\ UNCHANGED <<inputs, pipeline, collaborator>>

\* the try block of the load: sys.exit inside it is no Exception and leaves
\* the script; any Exception is reported by the handler
NlLoad ==
    /\ Nl("load")
    /\ CASE doc = "structured" ->
                /\ df' = data
                /\ Goto("parse")
         [] doc = "no_structured_data" ->
                /\ PrintAndExit(Error("No structuredData.data found in JSON file."), 1)
                /\ UNCHANGED df
         [] doc = "unloadable" ->
                /\ PrintAndExit(Error("Failed to load DataFrame"), 1)
                /\ UNCHANGED df
    /\ UNCHANGED <<inputs, parsed, year_col, valid_years, recent_years, subset,
                   target_col, collaborator>>

NlParse ==
    /\ Nl("parse")
    /\ LET m == pattern_search(question)
       IN  IF ~m.matched
           THEN /\ PrintAndExit(Error("Question not supported by deterministic aggregator."), 1)
                /\ UNCHANGED parsed
           ELSE /\ parsed' = m
                /\ Goto("yearcol")
    /\ UNCHANGED <<inputs, df, year_col, valid_years, recent_years, subset,
                   target_col, collaborator>>

NlFindYearCol ==
    /\ Nl("yearcol")
    /\ LET c == find_year_col(df)
       IN  CASE c = Raised ->
                    /\ Uncaught
                    /\ UNCHANGED year_col
             [] c = NoColumn ->
                    /\ PrintAndExit(Error("Could not detect a 'year' column."), 1)
                    /\ UNCHANGED year_col
             [] OTHER ->
                    /\ year_col' = c
                    /\ Goto("validyears")
    /\ UNCHANGED <<inputs, df, parsed, valid_years, recent_years, subset,
                   target_col, collaborator>>

NlValidYears ==
    /\ Nl("validyears")
    /\ LET years_numeric == to_numeric(df.cells[year_col])
       IN  IF HasNonFinite(years_numeric)
           THEN /\ Uncaught
                /\ UNCHANGED valid_years
           ELSE IF Len(AsInts(years_numeric)) = 0
           THEN /\ PrintAndExit(Error("No valid year values found."), 1)
                /\ UNCHANGED valid_years
           ELSE /\ valid_years' = AsInts(years_numeric)
                /\ Goto("filter")
    /\ UNCHANGED <<inputs, df, parsed, year_col, recent_years, subset,
                   target_col, collaborator>>

NlFilter ==
    /\ Nl("filter")
    /\ recent_years' = recent_years_of(valid_years, parsed.years_back)
    /\ subset' = subset_rows(df, year_col, recent_years')
    /\ Goto("checksubset")
    /\ UNCHANGED <<inputs, df, parsed, year_col, valid_years, target_col, collaborator>>

NlCheckSubset ==
    /\ Nl("checksubset")
    /\ IF Len(subset) = 0
       THEN PrintAndExit(Error("No rows within the requested year range."), 1)
       ELSE Goto("resolve")
    /\ UNCHANGED <<inputs, pipeline, collaborator>>

NlResolveTarget ==
    /\ Nl("resolve")
    /\ target_col' = resolve_target(df.columns, parsed.target_phrase)
    /\ Goto("aggregate")
    /\ UNCHANGED <<inputs, df, parsed, year_col, valid_years, recent_years, subset,
                   collaborator>>

\* the try block of the aggregation, to the end of the script
NlAggregate ==
    /\ Nl("aggregate")
    /\ LET answer == aggregate(df, subset, target_col, parsed.years_back)
       IN  IF answer = NoAnswer
           THEN PrintAndExit(Error("Deterministic aggregator error"), 1)
           ELSE PrintAndExit([key |-> "answer", text |-> answer, code |-> "absent"], 0)
    /\ UNCHANGED <<inputs, pipeline, collaborator>>

NlNext ==
    \/ NlCheckArgs
    \/ NlCheckFile
    \/ NlLoad
    \/ NlParse
    \/ NlFindYearCol
    \/ NlValidYears
    \/ NlFilter
    \/ NlCheckSubset
    \/ NlResolveTarget
    \/ NlAggregate


(***************************************************************************)
(* pandasai_query.py                                                       *)
(***************************************************************************)
Pq(stage) == script = "pandasai_query" /\ pc = stage

PqCheckArgs ==
    /\ Pq("args")
    /\ IF argc < 3
       THEN PrintAndExit(Error("Usage: python pandasai_query.py <json_file> <question>"), 1)
       ELSE Goto("file")
    /\ UNCHANGED <<inputs, pipeline, collaborator>>

PqCheckFile ==
    /\ Pq("file")
    /\ IF ~file_exists
       THEN PrintAndExit(Error("File not found"), 1)
       ELSE Goto("load")
    /\ UNCHANGED <<inputs, pipeline, collaborator>>

\* the try block of the load, with the numeric conversion of object columns
PqLoad ==
    /\ Pq("load")
    /\ CASE doc = "structured" ->
                /\ df' = convert_numeric(data)
                /\ Goto("parse")
         [] doc = "no_structured_data" ->
                /\ PrintAndExit(Error("No structuredData.data found in JSON file."), 1)
                /\ UNCHANGED df
         [] doc = "unloadable" ->
                /\ PrintAndExit(Error("Failed to load DataFrame"), 1)
                /\ UNCHANGED df
    /\ UNCHANGED <<inputs, parsed, year_col, valid_years, recent_years, subset,
                   target_col, collaborator>>

\* The deterministic block is one try: a test that fails falls through to
\* the collaborator, and so does any Exception ("except Exception: pass").
PqParse ==
    /\ Pq("parse")
    /\ LET m == pattern_search(question)
       IN  IF ~m.matched
           THEN /\ Goto("setup")
                /\ UNCHANGED parsed
           ELSE /\ parsed' = m
                /\ Goto("yearcol")
    /\ UNCHANGED <<inputs, df, year_col, valid_years, recent_years, subset,
                   target_col, collaborator>>

PqFindYearCol ==
    /\ Pq("yearcol")
    /\ LET c == find_year_col(df)
       IN  IF c = Raised \/ c = NoColumn
           THEN /\ Goto("setup")
                /\ UNCHANGED year_col
           ELSE /\ year_col' = c
                /\ Goto("validyears")
    /\ UNCHANGED <<inputs, df, parsed, valid_years, recent_years, subset,
                   target_col, collaborator>>

PqValidYears ==
    /\ Pq("validyears")
    /\ LET years_numeric == to_numeric(df.cells[year_col])
       IN  IF HasNonFinite(years_numeric) \/ Len(AsInts(years_numeric)) = 0
           THEN /\ Goto("setup")
                /\ UNCHANGED valid_years
           ELSE /\ valid_years' = AsInts(years_numeric)
                /\ Goto("filter")
    /\ UNCHANGED <<inputs, df, parsed, year_col, recent_years, subset,
                   target_col, collaborator>>

PqFilter ==
    /\ Pq("filter")
    /\ recent_years' = recent_years_of(valid_years, parsed.years_back)
    /\ subset' = subset_rows(df, year_col, recent_years')
    /\ Goto("resolve")
    /\ UNCHANGED <<inputs, df, parsed, year_col, valid_years, target_col, collaborator>>

PqResolveTarget ==
    /\ Pq("resolve")
    /\ target_col' = resolve_target(df.columns, parsed.target_phrase)
    /\ Goto("aggregate")
    /\ UNCHANGED <<inputs, df, parsed, year_col, valid_years, recent_years, subset,
                   collaborator>>

\* the answer is printed and sys.exit(0) leaves the script (SystemExit is no
\* Exception); ValueError is swallowed by the handler
PqAggregate ==
    /\ Pq("aggregate")
    /\ LET answer == aggregate(df, subset, target_col, parsed.years_back)
       IN  IF answer = NoAnswer
           THEN Goto("setup")
           ELSE PrintAndExit([key |-> "answer", text |-> answer, code |-> "null"], 0)
    /\ UNCHANGED <<inputs, pipeline, collaborator>>

\* Ollama(...), SmartDataframe(...), wrapped_question
PqSetup ==
    /\ Pq("setup")
    /\ Goto("chat")
    /\ UNCHANGED <<inputs, pipeline, collaborator>>

\* What sdf.chat does: returns a dict with "code", a dict without, a string,
\* an object json.dumps cannot serialize (a DataFrame), or raises
ChatResults == {"dict_with_code", "dict", "str", "unserializable", "raises"}

\* sdf.last_code_executed: no such attribute, None, or the code
LastCode == {"absent", "null", "some"}

\* getattr(sdf, "last_code_executed", None)
getattr_last_code(lc) == IF lc = "absent" THEN "null" ELSE lc

\* code, as the try body sets it
code_of(r, lc) ==
    IF r = "dict_with_code" THEN "some" ELSE getattr_last_code(lc)

\* The try block around sdf.chat: the handler also catches the TypeError of
\* json.dumps(output), raised before anything is printed
PqChat ==
    /\ Pq("chat")
    /\ chat_calls' = chat_calls + 1
    /\ \E r \in ChatResults, lc \in LastCode :
          /\ result' = r
          /\ last_code' = lc
          /\ IF r \in {"raises", "unserializable"}
             THEN PrintAndExit([key  |-> "error",
                                text |-> <<"PandasAI error">>,
                                code |-> getattr_last_code(lc)], 1)
             ELSE PrintAndExit([key  |-> "answer",
                                text |-> <<"sdf.chat", r>>,
                                code |-> code_of(r, lc)], 0)
    /\ UNCHANGED <<inputs, pipeline>>

PqNext ==
    \/ PqCheckArgs
    \/ PqCheckFile
    \/ PqLoad
    \/ PqParse
    \/ PqFindYearCol
    \/ PqValidYears
    \/ PqFilter
    \/ PqResolveTarget
    \/ PqAggregate
    \/ PqSetup
    \/ PqChat

Next == NlNext \/ PqNext

Spec == Init /\ [][Next]_vars

Terminated == pc \in {"exited", "crashed"}


(***************************************************************************)
(* The deterministic outcome of a script as a function of its input: the   *)
(* stages above composed.  NoAnswer when a stage fails or raises.          *)
(***************************************************************************)
deterministic_answer(frame, q) ==
    LET m == pattern_search(q)
    IN  IF ~m.matched THEN NoAnswer
        ELSE LET yc == find_year_col(frame)
             IN  IF yc = NoColumn \/ yc = Raised THEN NoAnswer
                 ELSE LET yn == to_numeric(frame.cells[yc])
                      IN  IF HasNonFinite(yn) \/ Len(AsInts(yn)) = 0 THEN NoAnswer
                          ELSE LET rows == subset_rows(frame, yc,
                                               recent_years_of(AsInts(yn), m.years_back))
                               IN  IF Len(rows) = 0 THEN NoAnswer
                                   ELSE aggregate(frame, rows,
                                            resolve_target(frame.columns, m.target_phrase),
                                            m.years_back)

\* what nl_aggregate.py computes from data
nl_answer(d, q) == deterministic_answer(d, q)

\* what the deterministic block of pandasai_query.py computes from data
pq_answer(d, q) == deterministic_answer(convert_numeric(d), q)

\* The stages and their composition agree: a deterministic answer on stdout
\* is the composed function of the input.
StagesCompose ==
    (Terminated /\ Len(stdout) = 1 /\ stdout[1].key = "answer" /\ chat_calls = 0)
        => stdout[1].text = IF script = "nl_aggregate"
                            THEN nl_answer(data, question)
                            ELSE pq_answer(data, question)

(***************************************************************************)
(* Stages reached                                                          *)
(***************************************************************************)
Loaded == argc >= 3 /\ file_exists /\ doc = "structured"
              /\ pc \notin {"args", "file", "load"}

ParseDone == Loaded /\ pc # "parse"

YearColDone == ParseDone /\ parsed.matched /\ pc # "yearcol"

FilterDone == YearColDone /\ valid_years # <<>> /\ pc \notin {"validyears", "filter"}

\* target-column resolution has run: nl_aggregate.py leaves before it on an
\* empty subset
ResolveDone ==
    /\ FilterDone
    /\ pc \notin {"checksubset", "resolve"}
    /\ script = "nl_aggregate" => subset # <<>>

IsAnswer(obj) == obj.key = "answer"

\* a deterministic answer is on stdout
DeterministicAnswered ==
    Terminated /\ Len(stdout) = 1 /\ IsAnswer(stdout[1]) /\ chat_calls = 0

(***************************************************************************)
(* Claims                                                                  *)
(***************************************************************************)

\* C1: every run of either script that terminates has written exactly one
\* JSON object to stdout.
C1_ExactlyOneJson == Terminated => Len(stdout) = 1

\* C2: in pandasai_query.py, once the dataset has loaded, sdf.chat is called
\* exactly once when the deterministic path produces no answer and never
\* when it does, and what it returns is emitted as {answer, code}.
C2_CollaboratorOnceAndForwarded ==
    (script = "pandasai_query" /\ Loaded /\ Terminated) =>
        /\ chat_calls = IF pq_answer(data, question) = NoAnswer THEN 1 ELSE 0
        /\ Len(stdout) = 1
        /\ (chat_calls = 1 /\ result # "raises") =>
              /\ IsAnswer(stdout[1])
              /\ stdout[1].text = <<"sdf.chat", result>>
              /\ stdout[1].code \in {"null", "some"}
              /\ (result # "dict_with_code" /\ last_code # "some")
                     => stdout[1].code = "null"

\* C3: a matching question with years_back <= 0 on a dataset whose year
\* column holds a valid year ends, in either script, with the one error
\* "No rows within the requested year range."
C3_EmptyWindowReported ==
    (Terminated /\ FilterDone /\ parsed.years_back <= 0) =>
        /\ subset = <<>>
        /\ stdout = <<Error("No rows within the requested year range.")>>


\* C4 as stated: whenever some column is named Year (in any case or spacing
\* variant), the column selected is one so named, whatever the other columns.
IsYearVariant(name) == normalize_name(name) = sYear

C4_YearNamedColumnSelected ==
    (YearColDone /\ \E j \in DOMAIN df.columns : IsYearVariant(df.columns[j])) =>
        /\ year_col # NoColumn
        /\ IsYearVariant(df.columns[year_col])

HasYearInName(name) == Contains(normalize_name(name), sYear)

\* C4, amended: the column selected is the first, in column order, whose
\* normalized name contains "year" (so a column named Year is selected unless
\* an earlier name contains "year" too), whether or not other columns hold
\* year-like numbers; a column selected for its values means that no
\* normalized name contains "year".
C4_FirstYearNameSelected ==
    YearColDone =>
        /\ (\E j \in DOMAIN df.columns : HasYearInName(df.columns[j])) =>
              /\ year_col # NoColumn
              /\ HasYearInName(df.columns[year_col])
              /\ \A i \in 1..(year_col - 1) : ~HasYearInName(df.columns[i])
        /\ (year_col # NoColumn /\ ~HasYearInName(df.columns[year_col])) =>
              \A j \in DOMAIN df.columns : ~HasYearInName(df.columns[j])

\* a column named Year is selected although an earlier column holds mostly
\* year-like numbers
C4_Witness ==
    /\ YearColDone
    /\ year_col = 2
    /\ IsYearVariant(df.columns[2])
    /\ ~HasYearInName(df.columns[1])
    /\ ~HasNonFinite(to_numeric(df.cells[1]))
    /\ NotNaCount(to_numeric(df.cells[1])) > 0
    /\ MostlyYears(AsInts(to_numeric(df.cells[1])))

\* C5: target-column resolution returns a column of the dataset: the
\* earliest, in column order, of those with the greatest score; the first
\* column when every score is 0.
C5_EarliestBestColumn ==
    ResolveDone =>
        /\ target_col \in DOMAIN data.columns
        /\ \A j \in DOMAIN data.columns :
              score(data.columns[j], parsed.target_phrase)
                  <= score(data.columns[target_col], parsed.target_phrase)
        /\ \A j \in 1..(target_col - 1) :
              score(data.columns[j], parsed.target_phrase)
                  < score(data.columns[target_col], parsed.target_phrase)
        /\ (\A j \in DOMAIN data.columns :
                score(data.columns[j], parsed.target_phrase) = 0) => target_col = 1

\* two columns tie on a positive score and the earlier one is returned
C5_Witness ==
    /\ ResolveDone
    /\ score(data.columns[target_col], parsed.target_phrase) > 0
    /\ \E j \in DOMAIN data.columns :
          /\ j > target_col
          /\ score(data.columns[j], parsed.target_phrase)
                 = score(data.columns[target_col], parsed.target_phrase)

\* the value at the end of an answer string
ValueOf(text) ==
    SubSeq(text,
           Len(sAveragePrefix) + Len(df.columns[target_col]) + Len(sOverPast)
               + Len(Digits(parsed.years_back)) + Len(sYearsColon) + 1,
           Len(text))

DurationAnswered ==
    /\ DeterministicAnswered
    /\ Contains(normalize_name(df.columns[target_col]), sTime)

\* (sum, count) of the durations averaged
DurationMean == time_mean(df.cells[target_col], subset)

\* C6: a rendered mean duration reads h:mm:ss with the hours unpadded, two
\* digits of minutes and of seconds, both at most 59, and
\* h*3600 + m*60 + s the mean floored to whole seconds; 7380 is "2:03:00",
\* 45 is "0:00:45" and 7192.5 is "1:59:52".
C6_DurationRendering ==
    DurationAnswered =>
        LET value == ValueOf(stdout[1].text)
            n     == Len(value)
            hh    == SubSeq(value, 1, n - 6)
            mm    == SubSeq(value, n - 4, n - 3)
            ss    == SubSeq(value, n - 1, n)
        IN  /\ n >= 7
            /\ value[n - 5] = ":" /\ value[n - 2] = ":"
            /\ \A i \in (1..n) \ {n - 5, n - 2} : IsDigit(value[i])
            /\ hh = Digits(ToInt(hh))
            /\ ToInt(mm) <= 59 /\ ToInt(ss) <= 59
            /\ ToInt(hh) * 3600 + ToInt(mm) * 60 + ToInt(ss)
                   = DurationMean.sum \div DurationMean.n
            /\ (DurationMean.sum = 7380 /\ DurationMean.n = 1)
                   => value = <<"2",":","0","3",":","0","0">>
            /\ (DurationMean.sum = 45 /\ DurationMean.n = 1)
                   => value = <<"0",":","0","0",":","4","5">>
            /\ (DurationMean.sum = 14385 /\ DurationMean.n = 2)
                   => value = <<"1",":","5","9",":","5","2">>

\* the mean 7192.5 of "1:58:30" and "2:01:15" has been rendered
C6_Witness ==
    /\ DurationAnswered
    /\ DurationMean.sum = 14385
    /\ DurationMean.n = 2

\* C7: the subset is the rows whose integer-coerced year is one of the
\* years_back largest distinct integer years, in row order.
C7_SubsetIsCoercedRecentYears ==
    FilterDone =>
        LET ser     == to_numeric(df.cells[year_col])
            years   == {TruncInt(ser[i].v) : i \in {x \in DOMAIN ser : ser[x].k = "num"}}
            largest == {y \in years :
                           Cardinality({z \in years : z > y}) < parsed.years_back}
            Keep(i) == ser[i].k = "num" /\ TruncInt(ser[i].v) \in largest
        IN  /\ Range(recent_years) = largest
            /\ subset = SelectSeq(AllRows(df), Keep)


LastChar(q) == q[Len(q)]

\* C8 as stated: a question that ends after the integer parses as the same
\* question followed by " years" does.
C8_TrailingYearsOptional ==
    (ParseDone /\ IsDigit(LastChar(question))) =>
        parsed = pattern_search(question \o sSpace \o wYears)

SpaceRun(q, a, b) == a <= b /\ \A k \in a..b : IsSpace(q[k])

DigitRun(q, a, b) == a <= b /\ \A k \in a..b : IsDigit(q[k])

DotRun(q, a, b) == a <= b /\ \A k \in a..b : IsDot(q[k])

LitPositions(q, lit) == {x \in DOMAIN q : LitAt(q, x, lit)}

\* The readings of q as: "average", whitespace, a phrase, whitespace, "for",
\* whitespace, "the", whitespace, "past", whitespace, an integer, whitespace,
\* "year"; each as <<the phrase trimmed, the integer>>.
QuestionForms(q) ==
    UNION { UNION { { <<Strip(SubSeq(q, g1[1], g1[2])), ToInt(SubSeq(q, g2[1], g2[2]))>> :
                        g1 \in { w \in ((i + 8)..(f - 2)) \X ((i + 8)..(f - 2)) :
                                   /\ SpaceRun(q, i + 7, w[1] - 1)
                                   /\ DotRun(q, w[1], w[2])
                                   /\ SpaceRun(q, w[2] + 1, f - 1) },
                        g2 \in { w \in ((p + 5)..(y - 2)) \X ((p + 5)..(y - 2)) :
                                   /\ SpaceRun(q, p + 4, w[1] - 1)
                                   /\ DigitRun(q, w[1], w[2])
                                   /\ SpaceRun(q, w[2] + 1, y - 1) } }
                    : <<f, t, p, y>> \in
                        { z \in LitPositions(q, sFor) \X LitPositions(q, sThe)
                                  \X LitPositions(q, sPast) \X LitPositions(q, sYear) :
                            /\ SpaceRun(q, z[1] + 3, z[2] - 1)
                            /\ SpaceRun(q, z[2] + 3, z[3] - 1)
                            /\ z[3] < z[4] } }
            : i \in LitPositions(q, sAverage) }

\* C8, amended: the trailing word "year" (an "s" may follow), after
\* whitespace, is required.  A question is parsed exactly when it has a
\* reading of the form above, to the trimmed phrase and the integer of one;
\* a question that ends after the integer yields NoMatch.
C8_TrailingYearRequired ==
    ParseDone =>
        LET forms == QuestionForms(question)
        IN  /\ parsed.matched <=> forms # {}
            /\ parsed.matched => <<parsed.target_phrase, parsed.years_back>> \in forms
            /\ ~parsed.matched => parsed = NoMatch
            /\ IsDigit(LastChar(question)) => ~parsed.matched

\* "average score for the past 3" has been parsed, to NoMatch
C8_Witness ==
    /\ ParseDone
    /\ LitAt(question, 1, sAverage)
    /\ IsDigit(LastChar(question))
    /\ ~parsed.matched
    /\ pattern_search(question \o sSpace \o wYears).matched

\* C9: a run of nl_aggregate.py on a loaded dataset ends with one object on
\* stdout: the error of the first stage that fails, in the order unsupported
\* question, no year column, no valid year values, no rows in the requested
\* year range, aggregation failure; the answer when no stage fails.
C9_FirstFailureReported ==
    (script = "nl_aggregate" /\ Loaded /\ Terminated) =>
        /\ Len(stdout) = 1
        /\ stdout[1] =
              IF ~pattern_search(question).matched
              THEN Error("Question not supported by deterministic aggregator.")
              ELSE IF year_col = NoColumn
              THEN Error("Could not detect a 'year' column.")
              ELSE IF valid_years = <<>>
              THEN Error("No valid year values found.")
              ELSE IF subset = <<>>
              THEN Error("No rows within the requested year range.")
              ELSE IF aggregate(df, subset, target_col, parsed.years_back) = NoAnswer
              THEN Error("Deterministic aggregator error")
              ELSE [key  |-> "answer",
                    text |-> aggregate(df, subset, target_col, parsed.years_back),
                    code |-> "absent"]

\* C10: when one script emits a deterministic answer for an input, the other
\* script emits the same answer for it, without the collaborator.
C10_VariantsAgree ==
    DeterministicAnswered =>
        stdout[1].text = IF script = "nl_aggregate"
                         THEN pq_answer(data, question)
                         ELSE nl_answer(data, question)


====
